---- MODULE Spec2Model ----
(***************************************************************************)
(* goworker-retry: the backoff wrapper of src/backoff.go.                  *)
(*                                                                         *)
(* A backoff object (eb) wraps a job function.  Every invocation of the    *)
(* wrapper created by WorkerFunc talks to a shared redis store (SETNX,     *)
(* INCR, EXPIRE, DEL on the retry key), runs the wrapped job, and either   *)
(* clears the key, gives up, or re-enqueues the job through resque.        *)
(*                                                                         *)
(* The model has a pool of workers, each running one invocation at a time, *)
(* one atomic step per store operation, the resque queue that feeds the    *)
(* workers, and the redis keys with their values and TTLs.                 *)
(*                                                                         *)
(* An operation on redis or resque that fails returns an error and has no  *)
(* effect.  Time is not measured: a key that carries a TTL may be removed  *)
(* at any later step, and a queued job may be picked up at any later step. *)
(* The variables last and hist, and the fields ops, failed and seen of an  *)
(* invocation, are history: no action's guard or effect on the store or    *)
(* the queue reads them (hist only bounds the behaviour).                  *)
(*                                                                         *)
(* Specifications: Spec (two jobs of one identity, workers concurrent),    *)
(* SpecDefault (one job, the default strategy), SpecCrowded (one more      *)
(* invocation, so that retries meet other jobs of the identity), SpecJobs  *)
(* (one job of any queue and arguments), SpecChain (one job, with          *)
(* fairness), SpecCrash (worker processes may die), and SpecKey (the key   *)
(* function on its own, its calls kept in the variable keyed).             *)
(***************************************************************************)
EXTENDS Integers, Sequences, FiniteSets, Bags, TLC

(* ------------------------------ bounds -------------------------------- *)

\* Workers that may run invocations at the same time.
NumWorkers == 2
\* Jobs submitted from outside (not by a retry).
MaxSubmit == 2
\* Invocations started in one behaviour, beyond the strategy's length.
ExtraInvocations == 1
\* Store, queue and connection failures, and TTLs that elapse, in one
\* behaviour.
MaxFaults == 1
\* Worker processes that die during an invocation, in one behaviour.
MaxCrashes == 1
\* Arguments of a job, where the retry key is computed on its own.
MaxArgs == 2

(* --------------------------- program constants ------------------------ *)

\* SETNX retryKey -1
Baseline == -1
\* EXPIRE retryKey retryDelay(retryAttempt)+3600
ExpireMargin == 3600

(* ------------------------------ arguments ----------------------------- *)

\* A job argument (interface{}): a string or an integer.
Str(s) == [t |-> "str", s |-> s, n |-> 0]
Num(n) == [t |-> "num", s |-> "", n |-> n]

Digit(d) == <<"0", "1", "2", "3", "4", "5", "6", "7", "8", "9">>[d + 1]

RECURSIVE Decimal(_)
Decimal(n) == IF n < 0 THEN "-" \o Decimal(-n)
              ELSE IF n < 10 THEN Digit(n)
              ELSE Decimal(n \div 10) \o Digit(n % 10)

\* fmt.Sprintf("%v", value)
FormatV(value) == IF value.t = "str" THEN value.s ELSE Decimal(value.n)

\* strings.Join(parts, sep)
RECURSIVE Join(_, _)
Join(parts, sep) == IF parts = <<>> THEN ""
                    ELSE IF Len(parts) = 1 THEN parts[1]
                    ELSE parts[1] \o sep \o Join(Tail(parts), sep)

\* sha1 digest in hex, taken as injective on its input.
Sha1Hex(s) == "sha1<" \o s \o ">"

retryIdentifier(args) ==
    Sha1Hex(Join([i \in 1 .. Len(args) |-> FormatV(args[i])], "-"))

retryKey(jobName, args) ==
    Join(<<"resque", "resque-retry", jobName, retryIdentifier(args)>>, ":")

(* --------------------------- the backoff object ----------------------- *)

DefaultStrategy == <<0, 60, 600, 3600, 10800, 21600>>

NewBackoff(jobName) ==
    [jobName |-> jobName,
     BackoffStrategy |-> DefaultStrategy,
     RetryLimit |-> Len(DefaultStrategy)]

\* Mutant of WithStrategy: RetryLimit one more than the strategy's length.
WithStrategyOneMore(b, strategy) ==
    [b EXCEPT !.BackoffStrategy = strategy, !.RetryLimit = Len(strategy) + 1]

\* Mutant of WithStrategy: RetryLimit one less than the strategy's length.
WithStrategyOneLess(b, strategy) ==
    [b EXCEPT !.BackoffStrategy = strategy, !.RetryLimit = Len(strategy) - 1]

\* A backoff whose exported BackoffStrategy was replaced, RetryLimit set to
\* its length.
WithStrategy(b, strategy) ==
    [b EXCEPT !.BackoffStrategy = strategy, !.RetryLimit = Len(strategy)]

\* attempt > (len(eb.BackoffStrategy) - 1): retryDelay takes the last entry.
Clamps(b, attempt) == attempt > Len(b.BackoffStrategy) - 1

\* Mutant of retryDelay: the delay of the attempt after this one.
retryDelayNext(b, attempt) ==
    LET last == Len(b.BackoffStrategy) - 1
        a == IF attempt + 1 > last THEN last ELSE attempt + 1
    IN  b.BackoffStrategy[a + 1]

\* Mutant of Index: the attempt is not clamped.
IndexUnclamped(b, attempt) == attempt

\* The index (from 0) at which retryDelay reads the strategy.
Index(b, attempt) ==
    IF Clamps(b, attempt) THEN Len(b.BackoffStrategy) - 1 ELSE attempt

retryDelay(b, attempt) == b.BackoffStrategy[Index(b, attempt) + 1]

JobName == "job"

\* Strategies a behaviour may run with besides the default one.
Strategies == {<<60>>, <<0, 60>>}

\* Queues and argument lists of the jobs that may be submitted.
Queues == {"q", "low"}
ArgLists == {<<Str("a"), Num(1)>>, <<Str("b")>>}

\* A job: its queue, its class (the name its worker is registered under)
\* and its arguments.
Jobs == [queue : Queues, class : {JobName}, args : ArgLists]

\* The one job of the behaviours in which every invocation is for the same
\* queue and arguments.
OneJob == {[queue |-> "q", class |-> JobName, args |-> <<Str("a"), Num(1)>>]}

Keys == {retryKey(JobName, a) : a \in ArgLists}

(* -------------------------------- state ------------------------------- *)

VARIABLES
    eb,      \* the backoff object: jobName, BackoffStrategy, RetryLimit
    store,   \* redis: retry key -> the counter with its TTL
    queue,   \* resque: the jobs waiting for a worker (a bag)
    inv,     \* the invocations the workers are running, each with its
             \* position and locals (a bag: workers are interchangeable)
    last,    \* history: the invocation that returned most recently
    hist,    \* history: counts of what happened so far
    keyed    \* the calls of eb.retryKey made on their own: their arguments
             \* and the keys they returned

vars == <<eb, store, queue, inv, last, hist, keyed>>

\* A key that does not exist.
Absent == [present |-> FALSE, val |-> 0, hasTTL |-> FALSE, ttl |-> 0]

NoJob == [queue |-> "", class |-> "", args |-> <<>>]

\* A job as it waits on its resque queue: put there by Enqueue (kind "now")
\* or by EnqueueIn with a delay of seconds (kind "in").
Queued(job, kind, seconds) ==
    [queue |-> job.queue, class |-> job.class, args |-> job.args,
     kind |-> kind, seconds |-> seconds]

\* An invocation as it is entered.  retryAttempt and err hold Go's zero
\* values until INCR and the wrapped job set them.
\* seen (history): the attempt numbers that invocations running at the same
\* time as this one got from INCR.
Entered(job, key, seen) ==
    [pc |-> "setnx", job |-> job, retryKey |-> key, retryAttempt |-> 0,
     gotAttempt |-> FALSE, executed |-> FALSE, err |-> FALSE,
     ops |-> {}, failed |-> {}, seen |-> seen]

\* No invocation has returned yet.
NoReturn == [n |-> 0, job |-> NoJob, retryKey |-> "", gotAttempt |-> FALSE,
             attempt |-> 0, executed |-> FALSE, jobErr |-> FALSE,
             ret |-> "none", reported |-> 0, enq |-> "none", seconds |-> 0,
             enqJob |-> NoJob, ops |-> {}, failed |-> {},
             keyPresent |-> FALSE, execs |-> 0, resubs |-> 0]

Running == BagToSet(inv)

One(x) == SetToBag({x})

RECURSIVE Copies(_, _)
Copies(B, S) == IF S = {} THEN 0
                ELSE LET x == CHOOSE y \in S : TRUE
                     IN  B[x] + Copies(B, S \ {x})

\* The running invocations other than one copy of me, each having seen
\* attempt number v.
OthersSee(me, v) ==
    LET others == inv (-) One(me)
        S == BagToSet(others)
        saw(m) == [m EXCEPT !.seen = @ \cup {v}]
    IN  [y \in {saw(m) : m \in S} |-> Copies(others, {m \in S : saw(m) = y})]

\* submit: the number of jobs the outside may still put on the queue, each
\* one of jobs; extra: the invocations that may be started beyond the
\* strategy's length.
InitWith(backoffs, submit, extra, jobs) ==
    /\ eb \in backoffs
    /\ store = [k \in Keys |-> Absent]
    /\ queue = EmptyBag
    /\ inv = EmptyBag
    /\ last = NoReturn
    /\ keyed = <<>>
    /\ hist = [toSubmit |-> submit, jobs |-> jobs, extra |-> extra, started |-> 0,
               faults |-> 0, expiries |-> 0, crashes |-> 0,
               overlap |-> FALSE, succeeded |-> FALSE,
               execs |-> [k \in Keys |-> 0], resubs |-> [k \in Keys |-> 0]]

Init == InitWith({WithStrategy(NewBackoff(JobName), s) : s \in Strategies}, MaxSubmit,
                 ExtraInvocations, OneJob)

\* The backoff as NewBackoff makes it, and one job submitted.
InitDefault == InitWith({NewBackoff(JobName)}, 1, ExtraInvocations, OneJob)

\* A failure is injected only while the behaviour's budget lasts.
MayFail(ok) == ok \/ hist.faults + hist.expiries < MaxFaults

Faulted(h, ok) == IF ok THEN h ELSE [h EXCEPT !.faults = @ + 1]

\* A counter created now has seen no execution and no resubmission yet.
Created(h, k) == [h EXCEPT !.execs[k] = 0, !.resubs[k] = 0]

\* The invocation me returns ret to goworker; reported is the number in
\* "Failed after %d attempts" (0 when there is none), enq what it handed to
\* resque ("none", "now" for Enqueue, "in" for EnqueueIn), seconds its delay,
\* enqJob the job handed over.  st and h are the store and the history as
\* the invocation leaves them; n counts the invocations started by then.
Returned(me, ret, reported, enq, seconds, enqJob, st, h) ==
    [n |-> h.started, job |-> me.job, retryKey |-> me.retryKey,
     gotAttempt |-> me.gotAttempt, attempt |-> me.retryAttempt,
     executed |-> me.executed, jobErr |-> me.err,
     ret |-> ret, reported |-> reported,
     enq |-> enq, seconds |-> seconds, enqJob |-> enqJob,
     ops |-> me.ops, failed |-> me.failed,
     keyPresent |-> st[me.retryKey].present,
     execs |-> h.execs[me.retryKey], resubs |-> h.resubs[me.retryKey]]

\* The invocation me after store or queue operation op, which succeeded or
\* not.
Did(me, op, ok) ==
    [me EXCEPT !.ops = @ \cup {op},
               !.failed = IF ok THEN @ ELSE @ \cup {op}]

\* The invocation me goes on as next; the invocation me returns.
GoesOn(me, next) == inv' = (inv (-) One(me)) (+) One(next)
Leaves(me) == inv' = inv (-) One(me)

(* ------------------------------- actions ------------------------------ *)

\* A job is put on a resque queue from outside.
Submit(q, a) ==
    /\ hist.toSubmit > 0
    /\ [queue |-> q, class |-> JobName, args |-> a] \in hist.jobs
    /\ queue' = queue (+) One(Queued([queue |-> q, class |-> JobName, args |-> a], "now", 0))
    /\ hist' = [hist EXCEPT !.toSubmit = @ - 1]
    /\ UNCHANGED <<keyed, eb, store, inv, last>>

\* goworker hands a queued job to a free worker, which enters the wrapper:
\* conn, err := goworker.GetConn(), then retryKey := eb.retryKey(args).
Start(j, ok) ==
    /\ j \in BagToSet(queue)
    /\ BagCardinality(inv) < NumWorkers
    /\ hist.started < Len(eb.BackoffStrategy) + hist.extra
    /\ MayFail(ok)
    /\ queue' = queue (-) One(j)
    /\ LET job == [queue |-> j.queue, class |-> j.class, args |-> j.args]
           me == Entered(job, retryKey(eb.jobName, job.args),
                         {m.retryAttempt : m \in {r \in Running : r.gotAttempt}})
           h == [Faulted(hist, ok) EXCEPT !.started = @ + 1,
                                          !.overlap = @ \/ (ok /\ inv # EmptyBag)]
       IN  /\ hist' = h
           /\ IF ok
              THEN /\ inv' = inv (+) One(me)
                   /\ UNCHANGED last
              ELSE /\ last' = Returned(Did(me, "CONN", FALSE), "conn", 0, "none", 0,
                                       NoJob, store, h)
                   /\ UNCHANGED inv
    /\ UNCHANGED <<keyed, eb, store>>

\* conn.Do("SETNX", retryKey, -1); its error is returned.
SetNX(me, ok) ==
    /\ me \in Running
    /\ me.pc = "setnx"
    /\ MayFail(ok)
    /\ LET k == me.retryKey
           did == Did(me, "SETNX", ok)
       IN
       IF ok
       THEN /\ store' = IF store[k].present THEN store
                        ELSE [store EXCEPT ![k] = [Absent EXCEPT !.present = TRUE,
                                                                 !.val = Baseline]]
            /\ hist' = IF store[k].present THEN hist ELSE Created(hist, k)
            /\ GoesOn(me, [did EXCEPT !.pc = "incr"])
            /\ UNCHANGED last
       ELSE /\ hist' = Faulted(hist, FALSE)
            /\ last' = Returned(did, "setnx", 0, "none", 0, NoJob, store, hist')
            /\ Leaves(me)
            /\ UNCHANGED store
    /\ UNCHANGED <<keyed, eb, queue>>

\* INCR succeeded: it counts a key that does not exist from 0.  The wrapped
\* job is called next, with no store operation in between: its execution
\* starts here.
IncrDone(me) ==
    LET k == me.retryKey
        v == IF store[k].present THEN store[k].val + 1 ELSE 1
    IN  /\ store' = [store EXCEPT ![k] = IF store[k].present
                                         THEN [@ EXCEPT !.val = v]
                                         ELSE [Absent EXCEPT !.present = TRUE,
                                                             !.val = v]]
        /\ hist' = [(IF store[k].present THEN hist ELSE Created(hist, k))
                      EXCEPT !.execs[k] = @ + 1]
        /\ inv' = OthersSee(me, v)
                  (+) One([Did(me, "INCR", TRUE) EXCEPT !.pc = "work",
                                                        !.retryAttempt = v,
                                                        !.gotAttempt = TRUE])
        /\ UNCHANGED last

\* INCR failed: the error is returned.
IncrFailed(me) ==
    /\ hist' = Faulted(hist, FALSE)
    /\ last' = Returned(Did(me, "INCR", FALSE), "incr", 0, "none", 0, NoJob, store, hist')
    /\ Leaves(me)
    /\ UNCHANGED store

\* Mutant of Incr: the error of INCR is not checked, and the invocation goes
\* on with the 0 that redis.Int returns beside an error.
IncrUnchecked(me, ok) ==
    /\ me \in Running
    /\ me.pc = "incr"
    /\ MayFail(ok)
    /\ IF ok THEN IncrDone(me)
       ELSE /\ hist' = Faulted(hist, FALSE)
            /\ GoesOn(me, [Did(me, "INCR", FALSE) EXCEPT !.pc = "work"])
            /\ UNCHANGED <<store, last>>
    /\ UNCHANGED <<keyed, eb, queue>>

\* retryAttempt, err := redis.Int(conn.Do("INCR", retryKey)); if err != nil
\* it is returned.
Incr(me, ok) ==
    /\ me \in Running
    /\ me.pc = "incr"
    /\ MayFail(ok)
    /\ IF ok THEN IncrDone(me) ELSE IncrFailed(me)
    /\ UNCHANGED <<keyed, eb, queue>>

\* err = eb.worker(queue, args...): the wrapped job returns, failed or not.
Work(me, e) ==
    /\ me \in Running
    /\ me.pc = "work"
    /\ GoesOn(me, [me EXCEPT !.pc = "expire", !.err = e, !.executed = TRUE])
    /\ hist' = [hist EXCEPT !.succeeded = @ \/ ~e]
    /\ UNCHANGED <<keyed, eb, store, queue, last>>

\* EXPIRE sets the key's TTL; on a key that does not exist, or when it
\* fails, it does nothing.
Expired(me, ok) ==
    LET k == me.retryKey IN
    IF ok /\ store[k].present
    THEN [store EXCEPT ![k] =
            [@ EXCEPT !.hasTTL = TRUE,
                      !.ttl = retryDelay(eb, me.retryAttempt) + ExpireMargin]]
    ELSE store

\* Mutant of Expire: the error of EXPIRE is returned.
ExpireChecked(me, ok) ==
    /\ me \in Running
    /\ me.pc = "expire"
    /\ MayFail(ok)
    /\ store' = Expired(me, ok)
    /\ hist' = Faulted(hist, ok)
    /\ IF ok
       THEN /\ GoesOn(me, [Did(me, "EXPIRE", ok) EXCEPT !.pc = "decide"])
            /\ UNCHANGED last
       ELSE /\ last' = Returned(Did(me, "EXPIRE", ok), "expire", 0, "none", 0, NoJob,
                                store', hist')
            /\ Leaves(me)
    /\ UNCHANGED <<keyed, eb, queue>>

\* redis.Int(conn.Do("EXPIRE", retryKey, eb.retryDelay(retryAttempt)+3600)),
\* its result dropped.
Expire(me, ok) ==
    /\ me \in Running
    /\ me.pc = "expire"
    /\ MayFail(ok)
    /\ store' = Expired(me, ok)
    /\ GoesOn(me, [Did(me, "EXPIRE", ok) EXCEPT !.pc = "decide"])
    /\ hist' = Faulted(hist, ok)
    /\ UNCHANGED <<keyed, eb, queue, last>>

\* Mutant of Exhausted: the limit is not tested.
ExhaustedNever(b, attempt) == FALSE

\* Mutant of Exhausted: > for >=.
ExhaustedStrict(b, attempt) == attempt > b.RetryLimit

\* retryAttempt >= eb.RetryLimit
Exhausted(b, attempt) == attempt >= b.RetryLimit

\* Mutant of Resubmitted: the job's own error is returned after the enqueue.
ResubmittedJobErr(ok) == IF ok THEN "joberr" ELSE "enqueue"

\* Mutant of Resubmitted: the error of the enqueue is dropped.
ResubmittedSwallowed(ok) == "nil"

\* What the invocation returns after handing the job to resque: the error of
\* Enqueue or EnqueueIn, else nil (the job's own error is not reported).
Resubmitted(ok) == IF ok THEN "nil" ELSE "enqueue"

\* Mutant of Del: the key is not deleted.
DelSkipped(k, ok) == store

\* conn.Do("DEL", retryKey), its result dropped.
Del(k, ok) ==
    IF ok THEN [store EXCEPT ![k] = Absent] ELSE store

\* Mutant of Resubmission: the arguments are not passed on.
ResubmissionNoArgs(me) ==
    [queue |-> me.job.queue, class |-> eb.jobName, args |-> <<>>]

\* The job handed to resque.Enqueue or resque.EnqueueIn: queue, eb.jobName,
\* args...
Resubmission(me) ==
    [queue |-> me.job.queue, class |-> eb.jobName, args |-> me.job.args]

\* Mutant of Succeed: no return after DEL, so that the job is handed to
\* resque as after a failure.
SucceedNoReturn(me, ok) ==
    /\ me \in Running
    /\ me.pc = "decide"
    /\ ~me.err
    /\ MayFail(ok)
    /\ store' = Del(me.retryKey, ok)
    /\ hist' = Faulted(hist, ok)
    /\ LET seconds == retryDelay(eb, me.retryAttempt)
           kind == IF seconds <= 0 THEN "now" ELSE "in"
           job == Resubmission(me)
           did == Did(Did(me, "DEL", ok), IF kind = "now" THEN "ENQUEUE" ELSE "ENQUEUEIN", TRUE)
       IN  /\ queue' = queue (+) One(Queued(job, kind, seconds))
           /\ last' = Returned(did, "nil", 0, kind, seconds, job, store', hist')
    /\ Leaves(me)
    /\ UNCHANGED <<keyed, eb>>

\* if err == nil: DEL and return nil.
Succeed(me, ok) ==
    /\ me \in Running
    /\ me.pc = "decide"
    /\ ~me.err
    /\ MayFail(ok)
    /\ store' = Del(me.retryKey, ok)
    /\ hist' = Faulted(hist, ok)
    /\ last' = Returned(Did(me, "DEL", ok), "nil", 0, "none", 0, NoJob, store', hist')
    /\ Leaves(me)
    /\ UNCHANGED <<keyed, eb, queue>>

\* if retryAttempt >= eb.RetryLimit: DEL and return
\* "Failed after (retryAttempt + 1) attempts: ...".
GiveUp(me, ok) ==
    /\ me \in Running
    /\ me.pc = "decide"
    /\ me.err
    /\ Exhausted(eb, me.retryAttempt)
    /\ MayFail(ok)
    /\ store' = Del(me.retryKey, ok)
    /\ hist' = Faulted(hist, ok)
    /\ last' = Returned(Did(me, "DEL", ok), "exhausted", me.retryAttempt + 1,
                        "none", 0, NoJob, store', hist')
    /\ Leaves(me)
    /\ UNCHANGED <<keyed, eb, queue>>

\* Mutant of Retry: when resque rejects the job, the counter is deleted
\* before the error is returned.
RetryCleansUp(me, ok) ==
    /\ me \in Running
    /\ me.pc = "decide"
    /\ me.err
    /\ ~Exhausted(eb, me.retryAttempt)
    /\ MayFail(ok)
    /\ LET seconds == retryDelay(eb, me.retryAttempt)
           kind == IF seconds <= 0 THEN "now" ELSE "in"
           delay == IF seconds <= 0 THEN 0 ELSE seconds
           k == me.retryKey
           job == Resubmission(me)
       IN  /\ queue' = IF ok THEN queue (+) One(Queued(job, kind, delay)) ELSE queue
           /\ store' = IF ok THEN store ELSE Del(k, TRUE)
           /\ hist' = IF ok THEN [hist EXCEPT !.resubs[k] = @ + 1]
                      ELSE Faulted(hist, FALSE)
           /\ last' = Returned(Did(me, IF kind = "now" THEN "ENQUEUE" ELSE "ENQUEUEIN", ok),
                               Resubmitted(ok), 0,
                               kind, delay, job, store', hist')
    /\ Leaves(me)
    /\ UNCHANGED <<keyed, eb>>

\* seconds := eb.retryDelay(retryAttempt); resque.Enqueue when seconds <= 0,
\* resque.EnqueueIn with that delay otherwise; the error of either is
\* returned, else nil.
Retry(me, ok) ==
    /\ me \in Running
    /\ me.pc = "decide"
    /\ me.err
    /\ ~Exhausted(eb, me.retryAttempt)
    /\ MayFail(ok)
    /\ LET seconds == retryDelay(eb, me.retryAttempt)
           kind == IF seconds <= 0 THEN "now" ELSE "in"
           delay == IF seconds <= 0 THEN 0 ELSE seconds
           k == me.retryKey
           job == Resubmission(me)
       IN  /\ queue' = IF ok THEN queue (+) One(Queued(job, kind, delay)) ELSE queue
           /\ hist' = IF ok THEN [hist EXCEPT !.resubs[k] = @ + 1]
                      ELSE Faulted(hist, FALSE)
           /\ last' = Returned(Did(me, IF kind = "now" THEN "ENQUEUE" ELSE "ENQUEUEIN", ok),
                               Resubmitted(ok), 0,
                               kind, delay, job, store, hist')
    /\ Leaves(me)
    /\ UNCHANGED <<keyed, eb, store>>

\* redis removes a key whose TTL has elapsed.
KeyExpire(k) ==
    /\ store[k].present
    /\ store[k].hasTTL
    /\ hist.faults + hist.expiries < MaxFaults
    /\ store' = [store EXCEPT ![k] = Absent]
    /\ hist' = [hist EXCEPT !.expiries = @ + 1]
    /\ UNCHANGED <<keyed, eb, queue, inv, last>>

Next ==
    \/ \E q \in Queues, a \in ArgLists : Submit(q, a)
    \/ \E j \in BagToSet(queue), ok \in BOOLEAN : Start(j, ok)
    \/ \E me \in Running, ok \in BOOLEAN : SetNX(me, ok)
    \/ \E me \in Running, ok \in BOOLEAN : Incr(me, ok)
    \/ \E me \in Running, e \in BOOLEAN : Work(me, e)
    \/ \E me \in Running, ok \in BOOLEAN : Expire(me, ok)
    \/ \E me \in Running, ok \in BOOLEAN : Succeed(me, ok)
    \/ \E me \in Running, ok \in BOOLEAN : GiveUp(me, ok)
    \/ \E me \in Running, ok \in BOOLEAN : Retry(me, ok)
    \/ \E k \in Keys : KeyExpire(k)

\* Workers run concurrently, with a strategy of Strategies.
Spec == Init /\ [][Next]_vars

\* One job submitted, of any queue and arguments, with a strategy of
\* Strategies.
InitJobs == InitWith({WithStrategy(NewBackoff(JobName), s) : s \in Strategies}, 1,
                     ExtraInvocations, Jobs)

SpecJobs == InitJobs /\ [][Next]_vars

\* The chain of one submitted job, with room for one invocation more than
\* in Spec.  goworker's workers keep polling the queue and every operation
\* of the wrapper returns: a step that can be taken is taken.
InitChain == InitWith({WithStrategy(NewBackoff(JobName), s) : s \in Strategies}, 1,
                      ExtraInvocations + 1, OneJob)

SpecChain == InitChain /\ [][Next]_vars /\ WF_vars(Next)

\* The worker process dies during the invocation me: nothing after the
\* operation it had reached is executed, and nothing is returned.
Crash(me) ==
    /\ me \in Running
    /\ hist.crashes < MaxCrashes
    /\ Leaves(me)
    /\ hist' = [hist EXCEPT !.crashes = @ + 1]
    /\ UNCHANGED <<keyed, eb, store, queue, last>>

NextCrash ==
    \/ Next
    \/ \E me \in Running : Crash(me)

\* As Spec, with worker processes that may die.
SpecCrash == Init /\ [][NextCrash]_vars

\* One job submitted to a backoff with the default strategy.
SpecDefault == InitDefault /\ [][Next]_vars

\* Jobs with the same arguments meet their own retries: a strategy of one
\* entry, and one invocation more than in Spec.
InitCrowded == InitWith({WithStrategy(NewBackoff(JobName), <<60>>)}, MaxSubmit,
                        ExtraInvocations + 1, OneJob)

SpecCrowded == InitCrowded /\ [][Next]_vars

\* Values and lists of at most MaxArgs values that eb.retryKey is called
\* with on its own.
KeyValues == {Str("a"), Str("b"), Str("a-b"), Str("1"), Num(1)}

KeyArgLists == UNION {[1 .. n -> KeyValues] : n \in 0 .. MaxArgs}

\* eb.retryKey(args) is called; the two most recent calls are kept.
CallRetryKey(args) ==
    /\ keyed' = LET call == [args |-> args, key |-> retryKey(eb.jobName, args)]
                IN  IF Len(keyed) < 2 THEN Append(keyed, call)
                    ELSE <<keyed[2], call>>
    /\ UNCHANGED <<eb, store, queue, inv, last, hist>>

NextKey == \E args \in KeyArgLists : CallRetryKey(args)

\* The key function alone: no job is submitted.
SpecKey == InitWith({NewBackoff(JobName)}, 0, ExtraInvocations, {}) /\ [][NextKey]_vars

(* ------------------------------- claims ------------------------------- *)

\* The invocations so far ran one after another, every execution of the
\* wrapped job failed, no store, queue or connection operation failed and no
\* TTL elapsed.
CleanRun ==
    /\ ~hist.overlap
    /\ ~hist.succeeded
    /\ hist.faults = 0
    /\ hist.expiries = 0

EnqueueOps == {"ENQUEUE", "ENQUEUEIN"}

\* C1: with the default strategy and an always-failing job whose invocations
\* run one after another from an absent counter, invocation 1 returns nil and
\* enqueues without delay, invocations 2..6 return nil and enqueue with
\* delays 60, 600, 3600, 10800, 21600 seconds, and invocation 7 returns the
\* error, enqueues nothing and leaves the counter absent.
C1_DefaultScenario ==
    (CleanRun /\ last.ret # "none") =>
        LET i == ((last.n - 1) % 7) + 1 IN
        /\ i = 1 => last.ret = "nil" /\ last.enq = "now" /\ last.seconds = 0
        /\ i \in 2 .. 6 =>
              /\ last.ret = "nil"
              /\ last.enq = "in"
              /\ last.seconds = <<60, 600, 3600, 10800, 21600>>[i - 1]
        /\ i = 7 =>
              /\ last.ret = "exhausted"
              /\ last.enq = "none"
              /\ ~last.keyPresent
              /\ ~store[last.retryKey].present

C1_Witness ==
    /\ CleanRun
    /\ last.n = 7
    /\ last.ret = "exhausted"
    /\ eb.BackoffStrategy = <<0, 60, 600, 3600, 10800, 21600>>

\* C2 as claimed: with a strategy of length L = RetryLimit, an always-failing
\* job is resubmitted exactly L-1 times and gives up on its L-th execution.
C2_Original ==
    (CleanRun /\ last.executed) =>
        /\ last.execs = eb.RetryLimit => last.ret = "exhausted" /\ last.enq = "none"
        /\ last.ret = "exhausted" => last.resubs = eb.RetryLimit - 1

\* C2 amended: with a strategy of length L = RetryLimit, an always-failing
\* job is resubmitted exactly L times, the i-th time with the delay of the
\* strategy's i-th entry, and gives up on its (L+1)-th execution, without
\* resubmitting.
C2_ResubmittedLTimes ==
    (CleanRun /\ last.executed) =>
        LET L == Len(eb.BackoffStrategy) IN
        /\ eb.RetryLimit = L
        /\ last.execs \in 1 .. L + 1
        /\ last.execs <= L =>
              /\ last.ret = "nil"
              /\ last.enq # "none"
              /\ last.resubs = last.execs
              /\ last.seconds = eb.BackoffStrategy[last.execs]
              /\ last.execs > 1 => last.seconds > eb.BackoffStrategy[last.execs - 1]
        /\ last.execs = L + 1 =>
              /\ last.ret = "exhausted"
              /\ last.enq = "none"
              /\ last.resubs = L

C2_Witness ==
    /\ CleanRun
    /\ last.ret = "exhausted"
    /\ last.resubs = 2
    /\ last.execs = 3

\* C3: when the wrapped job fails with attempt number below RetryLimit and
\* resque accepts the job, the invocation returns nil and issues no DEL.
C3_FailureSuppressed ==
    (/\ last.executed
     /\ last.jobErr
     /\ last.attempt < eb.RetryLimit
     /\ last.failed \cap EnqueueOps = {}) =>
        /\ last.ret = "nil"
        /\ last.enq # "none"
        /\ "DEL" \notin last.ops

C3_Witness ==
    /\ last.executed
    /\ last.jobErr
    /\ last.attempt < eb.RetryLimit
    /\ last.ret = "nil"
    /\ last.enq = "in"
    /\ last.keyPresent

\* C4 as claimed: when the wrapped job succeeds, the invocation returns nil,
\* resubmits nothing and leaves the counter absent.
C4_Original ==
    (last.executed /\ ~last.jobErr) =>
        /\ last.ret = "nil"
        /\ last.enq = "none"
        /\ ~last.keyPresent

\* C4 amended: when the wrapped job succeeds, the invocation returns nil,
\* resubmits nothing and issues DEL; the counter is absent as it returns
\* unless that DEL failed.
C4_SuccessClears ==
    (last.executed /\ ~last.jobErr) =>
        /\ last.ret = "nil"
        /\ last.enq = "none"
        /\ last.ops \cap EnqueueOps = {}
        /\ "DEL" \in last.ops
        /\ "DEL" \notin last.failed => ~last.keyPresent

\* A success after earlier failed attempts of the same counter.
C4_Witness ==
    /\ last.executed
    /\ ~last.jobErr
    /\ last.attempt >= 1
    /\ last.execs >= 2
    /\ last.ret = "nil"
    /\ ~last.keyPresent

\* C5 as claimed: when the wrapped job fails with attempt number at or above
\* RetryLimit, the invocation returns an error, resubmits nothing and leaves
\* the counter absent.
C5_Original ==
    (last.executed /\ last.jobErr /\ last.attempt >= eb.RetryLimit) =>
        /\ last.ret = "exhausted"
        /\ last.enq = "none"
        /\ ~last.keyPresent

\* C5 amended: when the wrapped job fails with attempt number at or above
\* RetryLimit, the invocation returns an error, resubmits nothing and issues
\* DEL; the counter is absent as it returns unless that DEL failed.
C5_ExhaustionClears ==
    (last.executed /\ last.jobErr /\ last.attempt >= eb.RetryLimit) =>
        /\ last.ret = "exhausted"
        /\ last.enq = "none"
        /\ last.ops \cap EnqueueOps = {}
        /\ "DEL" \in last.ops
        /\ "DEL" \notin last.failed => ~last.keyPresent

C5_Witness ==
    /\ last.executed
    /\ last.jobErr
    /\ last.attempt >= eb.RetryLimit
    /\ last.ret = "exhausted"
    /\ ~last.keyPresent

\* C6: the number in "Failed after K attempts" is the number of executions
\* of the wrapped job started since the counter was created: K = N + 1 for
\* the attempt number N read, and N + 1 executions were started (an
\* execution starts as its INCR returns).
C6_ReportedIsExecutions ==
    last.ret = "exhausted" =>
        /\ last.reported = last.attempt + 1
        /\ last.execs = last.attempt + 1

\* C7: when GetConn, SETNX or INCR fails the invocation returns that error
\* at once: the wrapped job is not run, nothing is resubmitted, no EXPIRE and
\* no DEL is issued, and no attempt number was taken.
C7_StoreErrorAborts ==
    \A f \in {<<"CONN", "conn">>, <<"SETNX", "setnx">>, <<"INCR", "incr">>} :
        f[1] \in last.failed =>
            /\ last.ret = f[2]
            /\ ~last.executed
            /\ ~last.gotAttempt
            /\ last.enq = "none"
            /\ last.ops \cap ({"EXPIRE", "DEL"} \cup EnqueueOps) = {}

C7_Witness ==
    /\ "INCR" \in last.failed
    /\ last.ret = "incr"
    /\ last.keyPresent

\* What an invocation returns and resubmits, as the job's result and the
\* attempt number alone decide it.
OutcomeOf(jobErr, attempt, r) ==
    IF ~jobErr
    THEN r.ret = "nil" /\ r.reported = 0 /\ r.enq = "none"
    ELSE IF attempt >= eb.RetryLimit
    THEN r.ret = "exhausted" /\ r.reported = attempt + 1 /\ r.enq = "none"
    ELSE LET last_i == Len(eb.BackoffStrategy)
             d == eb.BackoffStrategy[IF attempt + 1 > last_i THEN last_i ELSE attempt + 1]
         IN  /\ r.ret = "nil"
             /\ r.reported = 0
             /\ r.enq = (IF d = 0 THEN "now" ELSE "in")
             /\ r.seconds = d
             /\ r.enqJob = r.job

\* C8: a failed EXPIRE or DEL does not change what the invocation returns
\* and resubmits: both are decided by the job's result and the attempt
\* number alone, whether the bookkeeping operations succeeded or not.
C8_BookkeepingFailureIgnored ==
    (last.executed /\ last.failed \cap EnqueueOps = {}) =>
        OutcomeOf(last.jobErr, last.attempt, last)

C8_Witness ==
    /\ last.executed
    /\ last.failed \cap {"EXPIRE", "DEL"} # {}
    /\ last.jobErr
    /\ last.ret \in {"nil", "exhausted"}

\* C9: when the wrapped job fails with attempt number below RetryLimit and
\* resque rejects the job, the invocation returns an error; it returns nil
\* after a failed job only when the job is back on the queue.
C9_RejectedRetryReported ==
    (last.executed /\ last.jobErr /\ last.attempt < eb.RetryLimit) =>
        /\ last.failed \cap EnqueueOps # {} => last.ret = "enqueue"
        /\ last.ret = "nil" => last.ops \cap EnqueueOps # {} /\ last.failed \cap EnqueueOps = {}

C9_Witness ==
    /\ last.executed
    /\ last.jobErr
    /\ last.attempt < eb.RetryLimit
    /\ "ENQUEUEIN" \in last.failed
    /\ last.ret = "enqueue"

SetMax(S) == CHOOSE x \in S : \A y \in S : y <= x
SetMin(S) == CHOOSE x \in S : \A y \in S : x <= y

\* C10: invocations that run at the same time get distinct, contiguous
\* attempt numbers from INCR: no duplicates and no gaps.
C10_DistinctContiguous ==
    \A me \in Running :
        me.gotAttempt =>
            LET nums == me.seen \cup {me.retryAttempt} IN
            /\ me.retryAttempt \notin me.seen
            /\ SetMax(nums) - SetMin(nums) + 1 = Cardinality(nums)

\* An invocation whose job has failed with an attempt number that has reached
\* the retry limit: it concludes that its attempt is the final one (line 66).
ConcludesFinal(m) == m.executed /\ m.err /\ Exhausted(eb, m.retryAttempt)

\* C11: of the invocations for one identity that run at the same time and
\* whose jobs have failed, at most one concludes that its attempt is the
\* final one.
C11_OneFinalAttempt ==
    \A k \in Keys :
        Copies(inv, {m \in Running : m.retryKey = k /\ ConcludesFinal(m)}) <= 1

\* C12: while a job resubmitted with a delay of d seconds waits in the queue
\* (no store or queue operation failed, no TTL elapsed), its counter is
\* present and the TTL in force on it is not shorter than d.
C12_CounterOutlivesRetry ==
    (hist.faults = 0 /\ hist.expiries = 0) =>
        \A j \in BagToSet(queue) :
            j.kind = "in" =>
                LET c == store[retryKey(eb.jobName, j.args)] IN
                /\ c.present
                /\ c.hasTTL => c.ttl >= j.seconds

\* C13: once a worker process has died during an invocation and no
\* invocation is running any more (no store or queue operation failed),
\* every counter that exists carries a TTL, so that it is reclaimed.
C13_AbandonedKeyHasTTL ==
    (hist.crashes > 0 /\ hist.faults = 0 /\ inv = EmptyBag) =>
        \A k \in Keys : store[k].present => store[k].hasTTL

\* C14: for one job name, two calls of retryKey with distinct argument
\* lists return distinct keys (the digest taken as injective).
C14_DistinctArgsDistinctKeys ==
    \A i, j \in DOMAIN keyed :
        keyed[i].args # keyed[j].args => keyed[i].key # keyed[j].key

\* The step is the return of an invocation from the wrapper.
Returns ==
    /\ BagCardinality(inv') < BagCardinality(inv)
    /\ hist'.crashes = hist.crashes

\* C15: an invocation that got its attempt number from INCR returns having
\* executed its job and having done exactly one of: (a) the job succeeded,
\* DEL, nil returned, nothing put on the queue; (b) the job failed, DEL, the
\* exhaustion error returned, nothing put on the queue; (c) the job failed,
\* no DEL, one Enqueue or EnqueueIn issued, which puts this one job on the
\* queue or, when it fails, nothing.
C15_OneDecision ==
    [][(Returns /\ last'.gotAttempt) =>
          LET r == last' IN
          /\ r.executed
          /\ \/ /\ ~r.jobErr
                /\ r.ret = "nil"
                /\ "DEL" \in r.ops
                /\ r.ops \cap EnqueueOps = {}
                /\ r.enq = "none"
                /\ queue' = queue
             \/ /\ r.jobErr
                /\ r.ret = "exhausted"
                /\ "DEL" \in r.ops
                /\ r.ops \cap EnqueueOps = {}
                /\ r.enq = "none"
                /\ queue' = queue
             \/ /\ r.jobErr
                /\ r.ret \in {"nil", "enqueue"}
                /\ "DEL" \notin r.ops
                /\ Cardinality(r.ops \cap EnqueueOps) = 1
                /\ r.enq \in {"now", "in"}
                /\ queue' = IF r.ret = "nil"
                            THEN queue (+) One(Queued(r.enqJob, r.enq, r.seconds))
                            ELSE queue
      ]_vars

\* Invocations returned after each of the three decisions: the most recent
\* one gave up, and the counter it shared saw a resubmission and a success.
C15_Witness ==
    /\ last.ret = "exhausted"
    /\ last.gotAttempt
    /\ last.resubs > 0
    /\ hist.succeeded

\* The invocations running and the one that returned most recently, as
\* records of the attempt number and the operations issued.
Observed ==
    {[attempt |-> m.retryAttempt, ops |-> m.ops] : m \in {r \in Running : r.gotAttempt}}
    \cup {[attempt |-> last.attempt, ops |-> last.ops] : x \in {y \in {0} : last.gotAttempt}}

\* C16 as claimed: in normal operation (invocations one after another, no
\* fault) retryDelay is never called with an attempt beyond the last index
\* of the strategy, neither for the TTL of EXPIRE nor for the resubmission.
C16_Original ==
    CleanRun =>
        \A o \in Observed :
            (o.ops \cap ({"EXPIRE"} \cup EnqueueOps) # {}) => ~Clamps(eb, o.attempt)

\* C16 amended: under any interleaving, retryDelay is never called with an
\* attempt beyond the last index for the delay of a resubmission, which is
\* the strategy's entry for the attempt; for the TTL of EXPIRE it is called
\* with such an attempt by exactly the invocations whose attempt number has
\* reached RetryLimit.
C16_ClampOnlyForTTL ==
    /\ \A o \in Observed :
          /\ o.ops \cap EnqueueOps # {} => ~Clamps(eb, o.attempt)
          /\ "EXPIRE" \in o.ops => (Clamps(eb, o.attempt) <=> o.attempt >= eb.RetryLimit)
    /\ last.enq # "none" =>
          /\ last.attempt \in 0 .. Len(eb.BackoffStrategy) - 1
          /\ last.seconds = eb.BackoffStrategy[last.attempt + 1]

\* In normal operation the invocation that gives up has called retryDelay
\* for the TTL with the attempt one beyond the last index.
C16_Witness ==
    /\ CleanRun
    /\ last.ret = "exhausted"
    /\ "EXPIRE" \in last.ops
    /\ Clamps(eb, last.attempt)
    /\ last.attempt = Len(eb.BackoffStrategy)

\* C17: an invocation whose job failed with an attempt number N below the
\* retry limit hands to resque the job it was invoked for (same queue, job
\* name and arguments), with the strategy's entry for N: by Enqueue when the
\* entry is 0, by EnqueueIn with that many seconds otherwise; when resque
\* accepts it, that job is what the queue gains.
C17_ResubmitsSameJob ==
    [][(Returns /\ last'.gotAttempt /\ last'.jobErr /\ ~Exhausted(eb, last'.attempt)) =>
          LET r == last'
              d == eb.BackoffStrategy[r.attempt + 1]
              kind == IF d = 0 THEN "now" ELSE "in"
          IN  /\ r.enq = kind
              /\ r.seconds = d
              /\ r.ops \cap EnqueueOps = {IF d = 0 THEN "ENQUEUE" ELSE "ENQUEUEIN"}
              /\ r.enqJob = r.job
              /\ queue' = IF r.ret = "nil" THEN queue (+) One(Queued(r.job, kind, d))
                          ELSE queue
      ]_vars

\* A job of queue "low" was resubmitted without delay at attempt 0 (the
\* counter saw two resubmissions) and now with 60 seconds at attempt 1.
C17_Witness ==
    /\ last.ret = "nil"
    /\ last.enq = "in"
    /\ last.seconds = 60
    /\ last.attempt = 1
    /\ last.resubs = 2
    /\ last.job.queue = "low"
    /\ last.job.args = <<Str("b")>>
    /\ Queued(last.job, "in", 60) \in BagToSet(queue)

\* The chain has ended in exhaustion: the error was returned, nothing runs
\* and nothing waits in the queue.
ChainExhausted ==
    /\ last.ret = "exhausted"
    /\ inv = EmptyBag
    /\ queue = EmptyBag

\* C18: the chain of one submitted job whose every execution fails, while no
\* operation fails and no TTL elapses, executes the job at most RetryLimit + 1
\* times, has no resubmission outstanding once the exhaustion error is
\* returned, and does end in exhaustion.
C18_ChainTerminates ==
    /\ [](CleanRun =>
            /\ \A k \in Keys : hist.execs[k] <= eb.RetryLimit + 1
            /\ hist.started <= eb.RetryLimit + 1
            /\ last.ret = "exhausted" => ChainExhausted)
    /\ <>(~CleanRun \/ ChainExhausted)

\* The chain of a strategy of two entries has ended after three executions.
C18_Witness ==
    /\ CleanRun
    /\ ChainExhausted
    /\ Len(eb.BackoffStrategy) = 2
    /\ last.execs = 3
    /\ hist.started = 3

\* C19: in every reachable state, under any interleaving of invocations,
\* failures and TTL expiries, a counter that exists is at least the
\* baseline, the attempt number an invocation got from INCR is at least 0,
\* and the index at which retryDelay reads the (non-empty) strategy for it
\* is within 0 .. len - 1.
C19_LookupInBounds ==
    /\ Len(eb.BackoffStrategy) >= 1
    /\ \A k \in Keys : store[k].present => store[k].val >= Baseline
    /\ \A o \in Observed :
          /\ o.attempt >= 0
          /\ Index(eb, o.attempt) \in 0 .. Len(eb.BackoffStrategy) - 1
          /\ Index(eb, o.attempt) + 1 \in DOMAIN eb.BackoffStrategy

\* The counter was removed between an invocation's SETNX and its INCR, which
\* created it anew with 1: beyond the last index of a strategy of one entry.
C19_Witness ==
    \E m \in Running :
        /\ "SETNX" \in m.ops
        /\ m.gotAttempt
        /\ m.retryAttempt = 1
        /\ hist.execs[m.retryKey] = 1
        /\ "EXPIRE" \in m.ops
        /\ Len(eb.BackoffStrategy) = 1
        /\ hist.expiries = 1

\* The invocations so far ran one after another and no TTL elapsed.
Undisturbed == ~hist.overlap /\ hist.expiries = 0

\* C20: an invocation whose resubmission resque rejects returns without
\* touching the store and without having issued DEL; when nothing else
\* disturbed the counter it is left present with this invocation's attempt
\* number N, under the TTL this invocation's EXPIRE set, and the next
\* invocation for the identity gets N + 1 from INCR.
C20_RejectedRetryKeepsCounter ==
    /\ [][(Returns /\ last'.ret = "enqueue") =>
            LET r == last'
                c == store'[r.retryKey]
            IN  /\ store' = store
                /\ "DEL" \notin r.ops
                /\ Undisturbed =>
                      /\ c.present
                      /\ c.val = r.attempt
                      /\ "EXPIRE" \notin r.failed =>
                            /\ c.hasTTL
                            /\ c.ttl = retryDelay(eb, r.attempt) + ExpireMargin
        ]_vars
    /\ []((last.ret = "enqueue" /\ Undisturbed) =>
            \A m \in Running :
                (m.gotAttempt /\ m.retryKey = last.retryKey) =>
                    m.retryAttempt = last.attempt + 1)

\* After a rejected resubmission at attempt 1, the next invocation for the
\* identity has got attempt 2.
C20_Witness ==
    /\ last.ret = "enqueue"
    /\ last.attempt = 1
    /\ Undisturbed
    /\ \E m \in Running : m.gotAttempt /\ m.retryAttempt = 2 /\ m.retryKey = last.retryKey

====
